---- MODULE Spec2Model ----
(***************************************************************************)
(* The chained GUI command group of SCAutolib's CLI                        *)
(* (src/SCAutolib/cli_commands.py): the sub-commands of `scauto gui`, each *)
(* of which returns an action tuple, and the result callback gui_run_all   *)
(* that replays the collected tuples against a GUI object.                 *)
(*                                                                         *)
(* A run of `scauto gui [options] sub1 sub2 ...` is modelled as:           *)
(*   group    the body of the gui group function (pass)                    *)
(*   parse    click builds one context per sub-command, left to right      *)
(*   invoke   click calls the sub-command functions, collecting the tuples *)
(*   callback gui_run_all starts: Controller.setup_graphical               *)
(*   construct GUI(...) is constructed                                     *)
(*   loop     the for loop over the actions                                *)
(*   incall   the loop is inside a call on the GUI object                  *)
(*   returned / raised                                                     *)
(*                                                                         *)
(* Before any sub-command runs, the body of the top-level cli group runs   *)
(* (pc = "cli", "conf", "controller"); the card command is modelled from   *)
(* its flag check to its exit (pc = "card", "load", one position per       *)
(* selected step, "dump", "exited").                                       *)
(***************************************************************************)
EXTENDS Integers, Sequences, FiniteSets, TLC

(* ---------------------------------------------------------------- bounds *)
MaxChain == 3
MaxFlagChain == 2
MaxOptChain == 2

(* ------------------------------------------------------ program constants *)
DefaultWaitTime == 5

(* class ReturnCode(Enum): auto() is the value of the member before, plus one *)
SUCCESS == 0
MISSING_CA == SUCCESS + 1
FAILURE == MISSING_CA + 1

(* ------------------------------------------------------------ input sets *)
Names == {"X", "Y"}
None == "<none>"

NeedsArg == {"assert-text", "assert-image", "click-on", "kb-send", "kb-write"}

Sub(c, n, ci, gt, a) == [cmd |-> c, no |-> n, ci |-> ci, gt |-> gt, arg |-> a]

(* every sub-command of the gui group with every combination of its flags;  *)
(* arg = None on a sub-command that requires an argument is a malformed one *)
AllSubs ==
    {Sub("init", FALSE, FALSE, FALSE, None), Sub("done", FALSE, FALSE, FALSE, None)}
    \cup {Sub("assert-text", n, ci, gt, a) :
            n \in BOOLEAN, ci \in BOOLEAN, gt \in BOOLEAN, a \in Names}
    \cup {Sub("assert-image", n, FALSE, FALSE, a) : n \in BOOLEAN, a \in Names}
    \cup {Sub("click-on", FALSE, ci, FALSE, a) : ci \in BOOLEAN, a \in Names}
    \cup {Sub("check-home-screen", n, FALSE, FALSE, None) : n \in BOOLEAN}
    \cup {Sub("kb-send", FALSE, FALSE, FALSE, a) : a \in Names}
    \cup {Sub("kb-write", FALSE, FALSE, FALSE, a) : a \in Names}
    \cup {Sub(c, FALSE, FALSE, FALSE, None) : c \in NeedsArg}

(* the sub-commands with no flag given and one argument value *)
PlainSubs ==
    {s \in AllSubs : ~s.no /\ ~s.ci /\ ~s.gt /\ s.arg \in {"X", None}}

RECURSIVE SeqsUpTo(_, _)
SeqsUpTo(S, n) ==
    IF n = 0 THEN {<<>>}
    ELSE LET shorter == SeqsUpTo(S, n - 1)
         IN  shorter \cup {Append(q, x) : q \in {r \in shorter : Len(r) = n - 1}, x \in S}

VARIABLES
    argv,                 \* the sub-commands on the command line, in order
    install_missing,      \* --install-missing
    wait_time_opt,        \* --wait-time as typed: <<>> when it is not given
    wait_time,            \* the wait_time parameter click binds
    no_screenshot,        \* --no-screenshot
    no_check_difference,  \* --no-check-difference
    pc,                   \* position of the run
    parsed,               \* number of sub-command contexts click has built
    actions,              \* the tuples returned by the sub-command functions
    ctrlCalls,            \* calls of Controller.setup_graphical, in order
    gui,                  \* the GUI object: NoGui or its constructor arguments
    idx,                  \* number of actions the loop has completed
    calls,                \* calls on the GUI object, in order
    session,              \* lifecycle of the GUI session
    sent,                 \* keystrokes the session has sent, in order
    error,                \* the exception that ended the run
    invoked_subcommand,   \* ctx.invoked_subcommand of the cli group
    conf,                 \* --conf: the path as typed, or its default
    conf_file,            \* what the file system holds at that path
    force,                \* --force
    verbose,              \* --verbose
    card_argv,            \* the flags of the card command, in the order typed
    log_level,            \* the level of the logger
    ctx_force,            \* ctx.obj["FORCE"]: <<>> until it is stored
    parsed_conf,          \* the local parsed_conf of cli
    checked,              \* paths handed to check_conf_path, in order
    controller,           \* ctx.obj["CONTROLLER"]: <<>> or <<its argument>>
    cardOps,              \* calls on the card and dump_to_json, in order
    exit_code             \* <<>> until exit() is called, then <<its argument>>

cli_inputs == <<invoked_subcommand, conf, conf_file, force, verbose, card_argv>>

cli_state == <<log_level, ctx_force, parsed_conf, checked, controller, cardOps,
               exit_code>>

vars == <<argv, install_missing, wait_time_opt, wait_time, no_screenshot,
          no_check_difference, pc, parsed, actions, ctrlCalls, gui, idx, calls,
          session, sent, error, cli_inputs, cli_state>>

inputs == <<argv, install_missing, wait_time_opt, wait_time, no_screenshot,
            no_check_difference>>

NoGui == [constructed |-> FALSE]
NoCall == [op |-> "<nothing>"]
BadUnpack == [op |-> "<ValueError>"]

(* ------------------------------------------------- sub-command functions *)
(* mutant: the string "init" is returned as the docstring says; unpacking  *)
(* it in the loop yields its characters                                     *)
init_String == <<"i", "n", "i", "t">>

init == <<"init">>

assert_text(name, no, case_insensitive, get_text) ==
    IF no THEN <<"assert_no_text", ~case_insensitive, name>>
    ELSE <<"assert_text", ~case_insensitive, get_text, name>>

(* mutant: both branches return the affirmative kind *)
assert_image_SameKind(path, no) ==
    IF no THEN <<"assert_image", path>>
    ELSE <<"assert_image", path>>

assert_image(path, no) ==
    IF no THEN <<"assert_no_image", path>>
    ELSE <<"assert_image", path>>

(* mutant: the flag is passed on without negation *)
click_on_NotNegated(name, case_insensitive) == <<"click_on", case_insensitive, name>>

click_on(name, case_insensitive) == <<"click_on", ~case_insensitive, name>>

check_home_screen(no) ==
    IF no THEN <<"check_no_home_screen">>
    ELSE <<"check_home_screen">>

kb_send(keys) == <<"kb_send", keys>>

(* mutant: the tuple carries the keyword of kb_send *)
kb_write_AsSend(keys) == <<"kb_send", keys>>

kb_write(keys) == <<"kb_write", keys>>

done == <<"done">>

(* click binds the parsed options and argument of a sub-command to the      *)
(* parameters of its function                                               *)
SubCallback(s) ==
    CASE s.cmd = "init" -> init
      [] s.cmd = "assert-text" -> assert_text(s.arg, s.no, s.ci, s.gt)
      [] s.cmd = "assert-image" -> assert_image(s.arg, s.no)
      [] s.cmd = "click-on" -> click_on(s.arg, s.ci)
      [] s.cmd = "check-home-screen" -> check_home_screen(s.no)
      [] s.cmd = "kb-send" -> kb_send(s.arg)
      [] s.cmd = "kb-write" -> kb_write(s.arg)
      [] s.cmd = "done" -> done

(* a required click.argument that is absent makes the context fail *)
WellFormed(s) == s.cmd \in NeedsArg => s.arg # None

(* ------------------------------------------------------------ gui_run_all *)
(* mutant: the work of gui_run_all is done in the body of the gui group *)
RunAllStarts_InGroup == pc = "group"

(* gui_run_all is registered with @gui.result_callback(): click calls it    *)
(* once, after the sub-command functions of the whole chain have returned   *)
RunAllStarts == pc = "callback"

(* mutant: the second argument is left at False *)
SetupArgs_NotGui(im) == [install_missing |-> im, gui |-> FALSE]

(* ctx.obj["CONTROLLER"].setup_graphical(install_missing, True) *)
SetupArgs(im) == [install_missing |-> im, gui |-> TRUE]

(* mutant: no_screenshot is passed on without negation *)
GUIArgs_ScreenshotNotNegated(wt, ns, ncd) ==
    [constructed |-> TRUE, from_cli |-> TRUE, wait_time |-> wt,
     screenshot |-> ns, check_difference |-> ~ncd]

(* GUI(from_cli=True, wait_time=..., screenshot=..., check_difference=...) *)
GUIArgs(wt, ns, ncd) ==
    [constructed |-> TRUE, from_cli |-> TRUE, wait_time |-> wt,
     screenshot |-> ~ns, check_difference |-> ~ncd]

(* mutant: the loop walks the list from its end *)
NextAction_Reversed(acts, i) == acts[Len(acts) + 1 - i]

(* for action in actions: the i-th iteration takes the i-th tuple *)
NextAction(acts, i) == acts[i]

Call(op, args, pre) == [op |-> op, args |-> args, pre |-> pre]

(* the if/elif chain of the loop body: the call on the GUI object that the  *)
(* keyword and its parameters lead to; keyword arguments are listed in the  *)
(* order written; pre is the lifecycle state of the session when the call   *)
(* is made (the loop does not look at it)                                   *)
Branch(keyword, params, pre) ==
        IF keyword = "init" THEN Call("__enter__", <<>>, pre)
        ELSE IF keyword = "assert_text" THEN
            IF Len(params) # 3 THEN BadUnpack
            ELSE Call("assert_text", <<params[3], params[1], params[2]>>, pre)
        ELSE IF keyword = "assert_no_text" THEN
            IF Len(params) # 2 THEN BadUnpack
            ELSE Call("assert_no_text", <<params[2], params[1]>>, pre)
        ELSE IF keyword = "assert_image" THEN
            IF Len(params) # 1 THEN BadUnpack
            ELSE Call("assert_image", <<params[1]>>, pre)
        ELSE IF keyword = "assert_no_image" THEN
            IF Len(params) # 1 THEN BadUnpack
            ELSE Call("assert_no_image", <<params[1]>>, pre)
        ELSE IF keyword = "click_on" THEN
            IF Len(params) # 2 THEN BadUnpack
            ELSE Call("click_on", <<params[2], params[1]>>, pre)
        ELSE IF keyword = "check_home_screen" THEN Call("check_home_screen", <<>>, pre)
        ELSE IF keyword = "check_no_home_screen" THEN
            Call("check_home_screen", <<FALSE>>, pre)
        ELSE IF keyword = "kb_send" THEN
            IF Len(params) # 1 THEN BadUnpack
            ELSE Call("kb_send", <<params[1]>>, pre)
        ELSE IF keyword = "kb_write" THEN
            IF Len(params) # 1 THEN BadUnpack
            ELSE Call("kb_write", <<params[1]>>, pre)
        ELSE IF keyword = "done" THEN Call("__exit__", <<None, None, None>>, pre)
        ELSE NoCall

(* mutant: a token other than init is skipped unless the session is open *)
Dispatch_Guarded(action, pre) ==
    IF Head(action) # "init" /\ pre # "Open" THEN NoCall
    ELSE Branch(Head(action), Tail(action), pre)

(* mutant: every token is skipped once the session has been closed *)
Dispatch_ClosedGuard(action, pre) ==
    IF pre = "Closed" THEN NoCall
    ELSE Branch(Head(action), Tail(action), pre)

(* mutant: the done branch is missing *)
Dispatch_DoneIgnored(action, pre) ==
    IF Head(action) = "done" THEN NoCall
    ELSE Branch(Head(action), Tail(action), pre)

(* mutant: check_no_home_screen calls check_home_screen without False *)
Dispatch_HomeScreenSame(action, pre) ==
    IF Head(action) = "check_no_home_screen" THEN Call("check_home_screen", <<>>, pre)
    ELSE Branch(Head(action), Tail(action), pre)

(* mutant: an init token is skipped when the session is already open *)
Dispatch_EnterOnce(action, pre) ==
    IF Head(action) = "init" /\ pre = "Open" THEN NoCall
    ELSE Branch(Head(action), Tail(action), pre)

(* mutant: the body of the done branch sits under kb_write *)
Dispatch_WriteExits(action, pre) ==
    IF Head(action) = "kb_write" THEN Call("__exit__", <<None, None, None>>, pre)
    ELSE Branch(Head(action), Tail(action), pre)

(* keyword, *params = action, then the if/elif chain *)
Dispatch(action, pre) == Branch(Head(action), Tail(action), pre)

(* mutant: the exception is swallowed and the loop goes on *)
OnRaise_Continue(i) == [pc |-> "loop", idx |-> i, error |-> "none"]

(* mutant: the failed token is tried again *)
OnRaise_Retry(i) == [pc |-> "loop", idx |-> i - 1, error |-> "none"]

(* no try/except encloses the calls on the GUI object: an exception raised  *)
(* in the i-th iteration leaves the loop and gui_run_all                    *)
OnRaise(i) == [pc |-> "raised", idx |-> i - 1, error |-> "GUIException"]

(* the lifecycle of the GUI session: entered by __enter__, left by __exit__ *)
SessionAfter(op, s) ==
    IF op = "__enter__" THEN "Open"
    ELSE IF op = "__exit__" THEN "Closed"
    ELSE s

(* the keystrokes a call on the session sends when it returns: kb_send the  *)
(* keys, kb_write the text followed by enter                                *)
SessionKeys(c) ==
    IF c.op = "kb_send" THEN <<c.args[1]>>
    ELSE IF c.op = "kb_write" THEN <<c.args[1], "enter">>
    ELSE <<>>

(* the keystrokes ks as sent by the n-th call *)
SentBy(n, ks) == [j \in 1..Len(ks) |-> [call |-> n, key |-> ks[j]]]

(* mutant: the call is handed off and the loop goes on at once *)
WhileCalling_Async == "loop"

(* a call on the GUI object is an ordinary method call: the loop is inside  *)
(* it until it returns or raises                                            *)
WhileCalling == "incall"

(* ---------------------------------------------------------------- actions *)
GuiGroup ==
    /\ pc = "group"
    /\ pc' = "parse"
    /\ UNCHANGED <<cli_inputs, cli_state>>
    /\ UNCHANGED <<inputs, parsed, actions, ctrlCalls, gui, idx, calls, session,
                   sent, error>>

ParseSub ==
    /\ pc = "parse"
    /\ parsed < Len(argv)
    /\ WellFormed(argv[parsed + 1])
    /\ parsed' = parsed + 1
    /\ pc' = IF parsed + 1 = Len(argv) THEN "invoke" ELSE "parse"
    /\ UNCHANGED <<cli_inputs, cli_state>>
    /\ UNCHANGED <<inputs, actions, ctrlCalls, gui, idx, calls, session, sent, error>>

ParseFail ==
    /\ pc = "parse"
    /\ parsed < Len(argv)
    /\ ~WellFormed(argv[parsed + 1])
    /\ pc' = "raised"
    /\ error' = "ParseError"
    /\ UNCHANGED <<cli_inputs, cli_state>>
    /\ UNCHANGED <<inputs, parsed, actions, ctrlCalls, gui, idx, calls, session, sent>>

(* mutant: the sub-command function acts on the GUI itself *)
InvokeSub_Eager ==
    /\ pc = "invoke"
    /\ Len(actions) < Len(argv)
    /\ actions' = Append(actions, SubCallback(argv[Len(actions) + 1]))
    /\ calls' = Append(calls, Dispatch(SubCallback(argv[Len(actions) + 1]), session)
                                @@ [raised |-> FALSE, done |-> TRUE])
    /\ pc' = IF Len(actions) + 1 = Len(argv) THEN "callback" ELSE "invoke"
    /\ UNCHANGED <<cli_inputs, cli_state>>
    /\ UNCHANGED <<inputs, parsed, ctrlCalls, gui, idx, session, sent, error>>

InvokeSub ==
    /\ pc = "invoke"
    /\ Len(actions) < Len(argv)
    /\ actions' = Append(actions, SubCallback(argv[Len(actions) + 1]))
    /\ pc' = IF Len(actions) + 1 = Len(argv) THEN "callback" ELSE "invoke"
    /\ UNCHANGED <<cli_inputs, cli_state>>
    /\ UNCHANGED <<inputs, parsed, ctrlCalls, gui, idx, calls, session, sent, error>>

SetupGraphical ==
    /\ RunAllStarts
    /\ ctrlCalls' = Append(ctrlCalls, SetupArgs(install_missing))
    /\ pc' = "construct"
    /\ UNCHANGED <<cli_inputs, cli_state>>
    /\ UNCHANGED <<inputs, parsed, actions, gui, idx, calls, session, sent, error>>

SetupGraphicalRaises ==
    /\ RunAllStarts
    /\ ctrlCalls' = Append(ctrlCalls, SetupArgs(install_missing))
    /\ pc' = "raised"
    /\ error' = "EnvironmentError"
    /\ UNCHANGED <<cli_inputs, cli_state>>
    /\ UNCHANGED <<inputs, parsed, actions, gui, idx, calls, session, sent>>

ConstructGUI ==
    /\ pc = "construct"
    /\ gui' = GUIArgs(wait_time, no_screenshot, no_check_difference)
    /\ pc' = "loop"
    /\ UNCHANGED <<cli_inputs, cli_state>>
    /\ UNCHANGED <<inputs, parsed, actions, ctrlCalls, idx, calls, session, sent, error>>

(* one iteration of the loop, up to the call on the GUI object *)
LoopCall ==
    /\ pc = "loop"
    /\ idx < Len(actions)
    /\ LET c == Dispatch(NextAction(actions, idx + 1), session)
       IN  IF c.op = BadUnpack.op
           THEN /\ pc' = "raised"
                /\ error' = "ValueError"
                /\ UNCHANGED <<idx, calls>>
           ELSE IF c.op = NoCall.op
           THEN /\ idx' = idx + 1
                /\ UNCHANGED <<pc, error, calls>>
           ELSE /\ calls' = Append(calls, c @@ [raised |-> FALSE, done |-> FALSE])
                /\ pc' = WhileCalling
                /\ UNCHANGED <<idx, error>>
    /\ UNCHANGED <<cli_inputs, cli_state>>
    /\ UNCHANGED <<inputs, parsed, actions, ctrlCalls, gui, session, sent>>

(* the call on the GUI object returns and the iteration ends *)
CallReturns ==
    /\ pc = "incall"
    /\ LET n == Len(calls)
           c == calls[n]
       IN  /\ calls' = [calls EXCEPT ![n].done = TRUE]
           /\ session' = SessionAfter(c.op, session)
           /\ sent' = sent \o SentBy(n, SessionKeys(c))
    /\ idx' = idx + 1
    /\ pc' = "loop"
    /\ UNCHANGED <<cli_inputs, cli_state>>
    /\ UNCHANGED <<inputs, parsed, actions, ctrlCalls, gui, error>>

(* the call on the GUI object raises, having sent some of its keystrokes *)
CallRaises ==
    /\ pc = "incall"
    /\ LET n == Len(calls)
           c == calls[n]
           r == OnRaise(idx + 1)
       IN  /\ calls' = [calls EXCEPT ![n].done = TRUE, ![n].raised = TRUE]
           /\ \E k \in 0..Len(SessionKeys(c)) :
                 sent' = sent \o SentBy(n, SubSeq(SessionKeys(c), 1, k))
           /\ pc' = r.pc
           /\ idx' = r.idx
           /\ error' = r.error
    /\ UNCHANGED <<cli_inputs, cli_state>>
    /\ UNCHANGED <<inputs, parsed, actions, ctrlCalls, gui, session>>

(* mutant: the session is exited when the loop ends *)
LoopExit_Closes ==
    /\ pc = "loop"
    /\ idx = Len(actions)
    /\ pc' = "returned"
    /\ calls' = Append(calls, Call("__exit__", <<None, None, None>>, session)
                                @@ [raised |-> FALSE, done |-> TRUE])
    /\ session' = "Closed"
    /\ UNCHANGED <<cli_inputs, cli_state>>
    /\ UNCHANGED <<inputs, parsed, actions, ctrlCalls, gui, idx, sent, error>>

LoopExit ==
    /\ pc = "loop"
    /\ idx = Len(actions)
    /\ pc' = "returned"
    /\ UNCHANGED <<cli_inputs, cli_state>>
    /\ UNCHANGED <<inputs, parsed, actions, ctrlCalls, gui, idx, calls, session,
                   sent, error>>

Next ==
    \/ GuiGroup
    \/ ParseSub
    \/ ParseFail
    \/ InvokeSub
    \/ SetupGraphical
    \/ SetupGraphicalRaises
    \/ ConstructGUI
    \/ LoopCall
    \/ CallReturns
    \/ CallRaises
    \/ LoopExit

(* `scauto gui ...` after the body of cli has run: no path was checked and *)
(* the Controller was constructed with None                                *)
AfterCli ==
    /\ invoked_subcommand = "gui"
    /\ conf = "./conf.json"
    /\ conf_file = "missing"
    /\ force = FALSE
    /\ verbose = "INFO"
    /\ card_argv = <<>>
    /\ log_level = verbose
    /\ ctx_force = <<force>>
    /\ parsed_conf = None
    /\ checked = <<>>
    /\ controller = <<None>>
    /\ cardOps = <<>>
    /\ exit_code = <<>>

(* the state when click enters the gui group *)
Start ==
    /\ pc = "group"
    /\ AfterCli
    /\ parsed = 0
    /\ actions = <<>>
    /\ ctrlCalls = <<>>
    /\ gui = NoGui
    /\ idx = 0
    /\ calls = <<>>
    /\ session = "Unopened"
    /\ sent = <<>>
    /\ error = "none"

(* @click.option("--wait-time", default=5): the value typed, or the default; *)
(* the option as typed is <<>> when it is not given and <<v>> when it is     *)
WaitTimeParam(opt) == IF opt = <<>> THEN DefaultWaitTime ELSE opt[1]

DefaultOptions ==
    /\ wait_time_opt = <<>>
    /\ wait_time = WaitTimeParam(wait_time_opt)
    /\ no_screenshot = FALSE
    /\ no_check_difference = FALSE

(* chains of plain sub-commands, with or without --install-missing *)
Init ==
    /\ argv \in SeqsUpTo(PlainSubs, MaxChain) \ {<<>>}
    /\ install_missing \in BOOLEAN
    /\ DefaultOptions
    /\ Start

Spec == Init /\ [][Next]_vars

(* the run goes on while it has a step to take: click and gui_run_all are   *)
(* straight-line code, and every call on the controller or the session      *)
(* returns or raises                                                        *)
SpecLive == Init /\ [][Next]_vars /\ WF_vars(Next)

(* short chains of sub-commands with every combination of their flags *)
InitFlags ==
    /\ argv \in SeqsUpTo(AllSubs, MaxFlagChain) \ {<<>>}
    /\ install_missing = FALSE
    /\ DefaultOptions
    /\ Start

SpecFlags == InitFlags /\ [][Next]_vars

(* short chains of plain sub-commands with every combination of the options *)
(* of the gui group                                                         *)
InitOpts ==
    /\ argv \in SeqsUpTo(PlainSubs, MaxOptChain) \ {<<>>}
    /\ install_missing \in BOOLEAN
    /\ wait_time_opt \in {<<>>, <<1>>}
    /\ wait_time = WaitTimeParam(wait_time_opt)
    /\ no_screenshot \in BOOLEAN
    /\ no_check_difference \in BOOLEAN
    /\ Start

SpecOpts == InitOpts /\ [][Next]_vars

(* ================================================================ claims *)
(* the GUI operation the documentation of each sub-command announces *)
OpOfCmd(s) ==
    CASE s.cmd = "init" -> "__enter__"
      [] s.cmd = "assert-text" -> IF s.no THEN "assert_no_text" ELSE "assert_text"
      [] s.cmd = "assert-image" -> IF s.no THEN "assert_no_image" ELSE "assert_image"
      [] s.cmd = "click-on" -> "click_on"
      [] s.cmd = "check-home-screen" -> "check_home_screen"
      [] s.cmd = "kb-send" -> "kb_send"
      [] s.cmd = "kb-write" -> "kb_write"
      [] s.cmd = "done" -> "__exit__"

(* number of loop iterations that have been started *)
Started == idx + (IF pc = "incall" \/ error = "GUIException" THEN 1 ELSE 0)

Terminated == pc \in {"returned", "raised"}

(* C1: the i-th call on the GUI session is the operation of the i-th        *)
(* sub-command of the command line, and every iteration started so far has  *)
(* made exactly one call: nothing is reordered, dropped or merged.          *)
C1_CommandLineOrder ==
    /\ Len(calls) = Started
    /\ Len(calls) <= Len(argv)
    /\ \A i \in 1..Len(calls) :
          /\ calls[i].op = OpOfCmd(argv[i])
          /\ argv[i].arg # None => calls[i].args[1] = argv[i].arg

C1_Witness ==
    /\ pc = "returned"
    /\ Len(argv) = 3
    /\ argv[1].cmd = "init" /\ argv[2].cmd = "click-on" /\ argv[3].cmd = "done"
    /\ Len(calls) = 3

(* C2: a call on the session that raises is the last call ever made: the    *)
(* run has ended with that exception, the token is not retried and no later *)
(* token is executed.                                                       *)
C2_FailureShortCircuits ==
    /\ \A i \in 1..Len(calls) :
          calls[i].raised =>
              /\ i = Len(calls)
              /\ pc = "raised"
              /\ error = "GUIException"
    /\ error = "GUIException" =>
          /\ Len(calls) = idx + 1
          /\ calls[Len(calls)].raised

C2_Witness ==
    /\ pc = "raised"
    /\ error = "GUIException"
    /\ Len(actions) = 3
    /\ Len(calls) = 2
    /\ calls[2].op = "assert_text"

(* C3: when an action raises after Init has opened the session, the session *)
(* exit has been called exactly once and the session is Closed once the     *)
(* executor has raised.                                                     *)
C3_ReleasedOnFailure ==
    (/\ pc = "raised"
     /\ error = "GUIException"
     /\ \E i \in 1..Len(calls) : calls[i].op = "__enter__" /\ ~calls[i].raised)
    => /\ session = "Closed"
       /\ Cardinality({i \in 1..Len(calls) : calls[i].op = "__exit__"}) = 1

(* C4: setup_graphical, the construction of the GUI object and every call   *)
(* on it happen only after every sub-command of the command line has been   *)
(* parsed; a run whose command line has a malformed sub-command ends with   *)
(* ParseError, with none of them done.                                      *)
C4_ParseBeforeExecute ==
    LET executing == ctrlCalls # <<>> \/ gui.constructed \/ calls # <<>>
        malformed == \E i \in 1..Len(argv) : ~WellFormed(argv[i])
    IN  /\ executing => parsed = Len(argv) /\ ~malformed
        /\ error = "ParseError" => ~executing /\ actions = <<>>
        /\ malformed /\ Terminated => error = "ParseError"

C4_Witness ==
    /\ error = "ParseError"
    /\ Len(argv) = 3
    /\ parsed = 2
    /\ ~gui.constructed

(* C5 as stated: an operation other than the session enter is never invoked *)
(* while the session is Unopened (the executor stops with SessionStateError *)
(* instead).                                                                *)
C5_UnopenedRejected ==
    \A i \in 1..Len(calls) : calls[i].pre = "Unopened" => calls[i].op = "__enter__"

(* C5 amended: the executor makes no lifecycle check: every iteration it    *)
(* starts makes its call, a token other than Init executed while the        *)
(* session is Unopened has its own operation invoked on the session, and    *)
(* the run never ends with SessionStateError.                               *)
C5_UnopenedNotChecked ==
    /\ error \in {"none", "ParseError", "EnvironmentError", "GUIException"}
    /\ Len(calls) = Started
    /\ \A i \in 1..Len(calls) :
          calls[i].pre = "Unopened" /\ argv[i].cmd # "init" =>
              /\ calls[i].op = OpOfCmd(argv[i])
              /\ calls[i].op # "__enter__"

C5_Witness ==
    /\ pc = "returned"
    /\ \A i \in 1..Len(argv) : argv[i].cmd # "init"
    /\ \E i \in 1..Len(calls) :
          calls[i].op = "click_on" /\ calls[i].pre = "Unopened" /\ ~calls[i].raised

(* C6 as stated: once the session is Closed no operation is invoked on it   *)
(* any more, so it never becomes Open again.                                *)
C6_ClosedIsTerminal ==
    \A i \in 1..Len(calls) : calls[i].pre # "Closed"

(* C6 amended: Closed is not terminal in the executor: a token that follows *)
(* the Done that closed the session still has its operation invoked (a      *)
(* second Init enters again, a second Done exits again), and the run never  *)
(* ends with SessionStateError.                                             *)
C6_ClosedNotChecked ==
    /\ error # "SessionStateError"
    /\ Len(calls) = Started
    /\ \A i \in 1..Len(calls) :
          calls[i].pre = "Closed" =>
              /\ calls[i].op = OpOfCmd(argv[i])
              /\ \E j \in 1..(i - 1) : argv[j].cmd = "done" /\ ~calls[j].raised

C6_Witness ==
    /\ Len(calls) = 3
    /\ calls[1].op = "__enter__" /\ calls[1].pre = "Unopened"
    /\ calls[2].op = "__exit__" /\ calls[2].pre = "Open"
    /\ calls[3].op = "__enter__" /\ calls[3].pre = "Closed" /\ ~calls[3].raised
    /\ session = "Open"

(* C7: with --no the sub-commands assert-text, assert-image and             *)
(* check-home-screen yield the negated kind and without it the affirmative  *)
(* kind; the two tuples carry the same other fields, except that the        *)
(* negated text assertion has no get_text field.                            *)
NegatedKind(c) ==
    CASE c = "assert-text" -> "assert_no_text"
      [] c = "assert-image" -> "assert_no_image"
      [] c = "check-home-screen" -> "check_no_home_screen"

AffirmativeKind(c) ==
    CASE c = "assert-text" -> "assert_text"
      [] c = "assert-image" -> "assert_image"
      [] c = "check-home-screen" -> "check_home_screen"

(* the fields of a tuple other than its kind and get_text *)
OtherFields(t) == IF t[1] = "assert_text" THEN <<t[2], t[4]>> ELSE Tail(t)

C7_NoFlagSelectsKind ==
    \A i \in 1..Len(actions) :
        LET s == argv[i]
            t == actions[i]
            opposite == SubCallback([s EXCEPT !.no = ~s.no])
        IN  s.cmd \in {"assert-text", "assert-image", "check-home-screen"} =>
              /\ t[1] = (IF s.no THEN NegatedKind(s.cmd) ELSE AffirmativeKind(s.cmd))
              /\ opposite[1] = (IF s.no THEN AffirmativeKind(s.cmd) ELSE NegatedKind(s.cmd))
              /\ OtherFields(t) = OtherFields(opposite)
              /\ t[1] = "assert_no_text" => Len(t) = 3
              /\ t[1] = "assert_text" => Len(t) = 4 /\ t[3] = s.gt

C7_Witness ==
    /\ Len(actions) = 2
    /\ argv[1].cmd = "assert-image" /\ argv[1].no /\ actions[1][1] = "assert_no_image"
    /\ argv[2].cmd = "assert-text" /\ ~argv[2].no /\ actions[2][1] = "assert_text"

(* C8: the case_sensitive field of the tuple of assert-text (with or        *)
(* without --no) and click-on is the negation of --case-insensitive, and    *)
(* the same value is the case_sensitive argument of the call on the         *)
(* session.                                                                 *)
C8_CaseSensitiveIsNegatedFlag ==
    /\ \A i \in 1..Len(actions) :
          argv[i].cmd \in {"assert-text", "click-on"} => actions[i][2] = ~argv[i].ci
    /\ \A i \in 1..Len(calls) :
          argv[i].cmd \in {"assert-text", "click-on"} =>
              /\ calls[i].op = OpOfCmd(argv[i])
              /\ calls[i].args[2] = ~argv[i].ci

C8_Witness ==
    /\ Len(calls) = 2
    /\ argv[1].cmd = "click-on" /\ argv[1].ci /\ calls[1].args[2] = FALSE
    /\ argv[2].cmd = "assert-text" /\ ~argv[2].ci /\ calls[2].args[2] = TRUE

(* C9: the session is entered by Init tokens only and exited by Done tokens *)
(* only; no other token changes the lifecycle state; an Init that returns   *)
(* takes an Unopened session to Open and a Done that returns takes an Open  *)
(* session to Closed.                                                       *)
C9_LifecycleByLifecycleTokens ==
    /\ [](\A i \in 1..Len(calls) :
            /\ calls[i].op = "__enter__" <=> actions[i][1] = "init"
            /\ calls[i].op = "__exit__" <=> actions[i][1] = "done")
    /\ [][/\ session' # session =>
               /\ idx' = idx + 1
               /\ actions[idx + 1][1] \in {"init", "done"}
          /\ idx' = idx + 1 =>
               /\ (actions[idx + 1][1] = "init" /\ session = "Unopened")
                     => session' = "Open"
               /\ (actions[idx + 1][1] = "done" /\ session = "Open")
                     => session' = "Closed"]_vars

C9_Witness ==
    /\ Len(calls) = 3
    /\ calls[1].op = "__enter__" /\ calls[1].pre = "Unopened"
    /\ calls[2].op = "kb_send" /\ calls[2].pre = "Open"
    /\ calls[3].op = "__exit__" /\ calls[3].pre = "Open" /\ ~calls[3].raised
    /\ session = "Closed"

(* C10: setup_graphical is called exactly once in a run that reaches the    *)
(* executor, with the operator's install_missing and True, before the GUI   *)
(* object is constructed; when it raises, the GUI object is never           *)
(* constructed and no action is executed.                                   *)
C10_SetupOnceBeforeGUI ==
    /\ Len(ctrlCalls) <= 1
    /\ \A i \in 1..Len(ctrlCalls) :
          ctrlCalls[i] = [install_missing |-> install_missing, gui |-> TRUE]
    /\ (gui.constructed \/ calls # <<>> \/ pc \in {"construct", "loop", "incall", "returned"})
          => Len(ctrlCalls) = 1
    /\ error = "EnvironmentError" =>
          /\ Len(ctrlCalls) = 1
          /\ ~gui.constructed
          /\ calls = <<>>
          /\ idx = 0

C10_Witness ==
    /\ error = "EnvironmentError"
    /\ install_missing
    /\ Len(actions) = 3
    /\ ctrlCalls = <<[install_missing |-> TRUE, gui |-> TRUE]>>

(* the keys the i-th call has sent, in order *)
KeysOf(i) ==
    LET own == SelectSeq(sent, LAMBDA e : e.call = i)
    IN  [j \in 1..Len(own) |-> own[j].key]

(* C11: kb-write TEXT yields the tuple ("kb_write", TEXT); its execution    *)
(* calls kb_write(TEXT) on the session, which sends TEXT and then enter,    *)
(* both before any keystroke of a later token.                              *)
C11_KbWriteThenEnter ==
    /\ \A i \in 1..Len(actions) :
          argv[i].cmd = "kb-write" => actions[i] = <<"kb_write", argv[i].arg>>
    /\ \A i \in 1..Len(calls) :
          argv[i].cmd = "kb-write" =>
              /\ calls[i].op = "kb_write"
              /\ calls[i].args = <<argv[i].arg>>
              /\ (calls[i].done /\ ~calls[i].raised) =>
                    KeysOf(i) = <<argv[i].arg, "enter">>
    /\ \A j \in 1..Len(sent) : \A k \in j..Len(sent) : sent[j].call <= sent[k].call

C11_Witness ==
    /\ pc = "returned"
    /\ Len(argv) = 2
    /\ argv[1].cmd = "kb-write" /\ argv[2].cmd = "kb-send"
    /\ sent = <<[call |-> 1, key |-> "X"], [call |-> 1, key |-> "enter"],
                [call |-> 2, key |-> "X"]>>

(* the arguments of the session operation of a sub-command, from its own    *)
(* flags and argument                                                       *)
ArgsOfCmd(s) ==
    CASE s.cmd = "init" -> <<>>
      [] s.cmd = "assert-text" ->
            IF s.no THEN <<s.arg, ~s.ci>> ELSE <<s.arg, ~s.ci, s.gt>>
      [] s.cmd = "assert-image" -> <<s.arg>>
      [] s.cmd = "click-on" -> <<s.arg, ~s.ci>>
      [] s.cmd = "check-home-screen" -> IF s.no THEN <<FALSE>> ELSE <<>>
      [] s.cmd = "kb-send" -> <<s.arg>>
      [] s.cmd = "kb-write" -> <<s.arg>>
      [] s.cmd = "done" -> <<None, None, None>>

(* C12: every token is dispatched to the one session operation of its kind, *)
(* with exactly the fields of the token as arguments, and a chain that ran  *)
(* without failure has made as many calls as it has tokens.                 *)
C12_DispatchByKind ==
    /\ \A i \in 1..Len(calls) :
          /\ calls[i].op = OpOfCmd(argv[i])
          /\ calls[i].args = ArgsOfCmd(argv[i])
    /\ pc = "returned" => Len(calls) = Len(argv)

C12_Witness ==
    /\ pc = "returned"
    /\ Len(calls) = 2
    /\ argv[1].cmd = "check-home-screen" /\ argv[1].no
    /\ calls[1].op = "check_home_screen" /\ calls[1].args = <<FALSE>>
    /\ calls[2].op = "assert_text" /\ calls[2].args = <<"Y", FALSE, TRUE>>

(* C13: the GUI object is constructed with screenshot = not no_screenshot,  *)
(* check_difference = not no_check_difference and wait_time = the value     *)
(* typed (5 when --wait-time is not given), and no step of the run changes  *)
(* these values or the options once it is constructed.                      *)
C13_ConfigFixed ==
    /\ [](gui.constructed =>
            gui = [constructed |-> TRUE, from_cli |-> TRUE,
                   wait_time |-> IF wait_time_opt = <<>> THEN 5 ELSE wait_time_opt[1],
                   screenshot |-> ~no_screenshot,
                   check_difference |-> ~no_check_difference])
    /\ [][(gui.constructed => gui' = gui) /\ inputs' = inputs]_vars

C13_Witness ==
    /\ pc = "returned"
    /\ Len(calls) = 2
    /\ wait_time_opt = <<>> /\ no_screenshot /\ ~no_check_difference
    /\ gui.constructed
    /\ gui.wait_time = 5 /\ ~gui.screenshot /\ gui.check_difference

(* C14: an iteration for a token other than init and done whose call        *)
(* returns leaves the lifecycle state of the session as it was (Open stays  *)
(* Open), and leaves the list of actions, the command line and the GUI      *)
(* object's configuration untouched.                                        *)
C14_NonLifecycleKeepsState ==
    [][(/\ idx' = idx + 1
        /\ actions[idx + 1][1] \notin {"init", "done"})
       => /\ session' = session
          /\ actions' = actions
          /\ gui' = gui
          /\ inputs' = inputs]_vars

C14_Witness ==
    /\ session = "Open"
    /\ idx = 2
    /\ Len(calls) = 2
    /\ calls[1].op = "__enter__"
    /\ calls[2].op = "click_on" /\ calls[2].pre = "Open"
    /\ calls[2].done /\ ~calls[2].raised

(* C15: at most one call on the session is in progress at any time, and the *)
(* call of a token starts only after the calls of all earlier tokens have   *)
(* returned; the loop is inside a call exactly while one is in progress.    *)
C15_OneCallAtATime ==
    /\ Cardinality({i \in 1..Len(calls) : ~calls[i].done}) <= 1
    /\ \A i \in 1..Len(calls) :
          i < Len(calls) => calls[i].done /\ ~calls[i].raised
    /\ pc = "incall" <=> (calls # <<>> /\ ~calls[Len(calls)].done)

C15_Witness ==
    /\ pc = "incall"
    /\ Len(calls) = 2
    /\ calls[1].done
    /\ ~calls[2].done
    /\ idx = 1

(* the keyword of the tuple of a sub-command *)
KindOfCmd(s) ==
    IF s.cmd \in {"assert-text", "assert-image", "check-home-screen"}
    THEN (IF s.no THEN NegatedKind(s.cmd) ELSE AffirmativeKind(s.cmd))
    ELSE CASE s.cmd = "init" -> "init"
           [] s.cmd = "click-on" -> "click_on"
           [] s.cmd = "kb-send" -> "kb_send"
           [] s.cmd = "kb-write" -> "kb_write"
           [] s.cmd = "done" -> "done"

(* the number of fields that follow the keyword *)
FieldsOfCmd(s) ==
    CASE s.cmd \in {"init", "done", "check-home-screen"} -> 0
      [] s.cmd = "assert-text" -> IF s.no THEN 2 ELSE 3
      [] s.cmd = "click-on" -> 2
      [] s.cmd \in {"assert-image", "kb-send", "kb-write"} -> 1

(* C16: while the sub-commands are parsed and their functions called, no    *)
(* operation of the session or the controller is invoked and no GUI object  *)
(* exists; each call of a sub-command function adds exactly one tuple,      *)
(* whose keyword and fields are those of that sub-command's own flags and   *)
(* argument, the same wherever the sub-command stands in the chain.         *)
C16_ParserTouchesNothing ==
    /\ [](pc \in {"group", "parse", "invoke"} =>
            /\ calls = <<>> /\ ctrlCalls = <<>> /\ sent = <<>>
            /\ ~gui.constructed
            /\ session = "Unopened")
    /\ [](\A i \in 1..Len(actions) :
            /\ actions[i][1] = KindOfCmd(argv[i])
            /\ Len(actions[i]) = 1 + FieldsOfCmd(argv[i])
            /\ \A j \in 1..Len(actions) : argv[i] = argv[j] => actions[i] = actions[j])
    /\ [][pc = "invoke" =>
            /\ Len(actions') = Len(actions) + 1
            /\ SubSeq(actions', 1, Len(actions)) = actions
            /\ UNCHANGED <<calls, ctrlCalls, gui, session, sent>>]_vars

C16_Witness ==
    /\ pc = "callback"
    /\ Len(actions) = 2
    /\ actions[1] = <<"assert_no_text", FALSE, "X">>
    /\ actions[2] = <<"click_on", TRUE, "Y">>
    /\ calls = <<>> /\ ctrlCalls = <<>>

(* C17: a chain without done that runs to its end returns after its last    *)
(* token: one call per token, none of them the session exit; the session is *)
(* not Closed, and is Open when the chain has an init.                      *)
C17_NoDoneLeavesOpen ==
    (/\ pc = "returned"
     /\ \A i \in 1..Len(argv) : argv[i].cmd # "done")
    => /\ Len(calls) = Len(argv)
       /\ idx = Len(argv)
       /\ \A i \in 1..Len(calls) : calls[i].op # "__exit__"
       /\ session # "Closed"
       /\ (\E i \in 1..Len(argv) : argv[i].cmd = "init") => session = "Open"

C17_Witness ==
    /\ pc = "returned"
    /\ Len(argv) = 3
    /\ argv[1].cmd = "init" /\ argv[2].cmd = "assert-text" /\ argv[3].cmd = "kb-write"
    /\ session = "Open"
    /\ Len(calls) = 3

(* the keywords the if/elif chain of gui_run_all tests for *)
ExecutorKeywords ==
    {"init", "assert_text", "assert_no_text", "assert_image", "assert_no_image",
     "click_on", "check_home_screen", "check_no_home_screen", "kb_send", "kb_write",
     "done"}

(* the number of names the branch of a keyword unpacks params into; the     *)
(* branches that unpack nothing accept any number                           *)
UnpackedBy(k) ==
    CASE k = "assert_text" -> {3}
      [] k \in {"assert_no_text", "click_on"} -> {2}
      [] k \in {"assert_image", "assert_no_image", "kb_send", "kb_write"} -> {1}
      [] OTHER -> 0..3

C19_Terminates ==
    /\ <>Terminated
    /\ [](/\ idx <= Len(actions)
          /\ Len(calls) <= idx + 1
          /\ pc = "returned" =>
                /\ idx = Len(actions)
                /\ \A i \in 1..Len(calls) : ~calls[i].raised
          /\ (pc = "raised" /\ error = "GUIException") =>
                /\ calls[Len(calls)].raised
                /\ \A i \in 1..(Len(calls) - 1) : ~calls[i].raised
                /\ idx = Len(calls) - 1)
    /\ [][idx' >= idx /\ (Terminated => UNCHANGED vars)]_vars

C19_Witness ==
    /\ pc = "raised"
    /\ error = "GUIException"
    /\ Len(actions) = 3
    /\ idx = 2
    /\ calls[3].raised

(* C20: lifecycle tokens are not guarded: every init has the session enter  *)
(* called and every done the session exit, whatever the lifecycle state at  *)
(* that moment (an init on an Open session enters again, a done on an       *)
(* Unopened session exits); a run that returns has made as many enter calls *)
(* as the chain has init tokens and as many exit calls as it has done       *)
(* tokens.                                                                  *)
C20_LifecycleNotGuarded ==
    /\ Len(calls) = Started
    /\ \A i \in 1..Len(calls) :
          /\ argv[i].cmd = "init" => calls[i].op = "__enter__"
          /\ argv[i].cmd = "done" => calls[i].op = "__exit__"
    /\ pc = "returned" =>
          /\ Cardinality({i \in 1..Len(calls) : calls[i].op = "__enter__"})
                = Cardinality({i \in 1..Len(argv) : argv[i].cmd = "init"})
          /\ Cardinality({i \in 1..Len(calls) : calls[i].op = "__exit__"})
                = Cardinality({i \in 1..Len(argv) : argv[i].cmd = "done"})

C20_Witness ==
    /\ pc = "returned"
    /\ Len(calls) = 3
    /\ calls[1].op = "__exit__" /\ calls[1].pre = "Unopened"
    /\ calls[2].op = "__enter__"
    /\ calls[3].op = "__enter__" /\ calls[3].pre = "Open"

(* ================================================= the cli group and card *)
(* ------------------------------------------------------------ input sets *)
(* the sub-commands registered on the cli group *)
Subcommands == {"prepare", "card", "cleanup", "gui"}

(* click.Choice of --verbose *)
Levels == {"DEBUG", "INFO", "WARNING", "ERROR", "CRITICAL"}

(* --conf: its default and one other path *)
ConfPaths == {"./conf.json", "card.json"}

(* what click.Path(exists=True) can find at the path *)
ConfFiles == {"readable", "unreadable", "missing"}

(* the flags of the card command, in the order of its if statements *)
CardFlags == <<"--prepare", "--insert", "--remove", "--restore">>

Range(q) == {q[i] : i \in 1..Len(q)}

(* every way of typing some of the flags, each at most once, in any order *)
FlagOrders ==
    {q \in SeqsUpTo(Range(CardFlags), Len(CardFlags)) :
        \A i, j \in 1..Len(q) : q[i] = q[j] => i = j}

(* ------------------------------------------------------------------- cli *)
(* resolve_path=True: the path made absolute *)
Resolve(p) ==
    CASE p = "./conf.json" -> "/cwd/conf.json"
      [] p = "card.json" -> "/cwd/card.json"

(* click.Path raises BadParameter unless the path exists and is readable;  *)
(* check_conf_path turns that into SCAutolibException                       *)
check_conf_path(c, file) ==
    IF file = "readable"
    THEN [raised |-> "none", value |-> Resolve(c)]
    ELSE [raised |-> "SCAutolibException", value |-> None]

(* mutant: the sub-command decides nothing, every path is checked *)
NeedsConf_Always(sub) == TRUE

(* if ctx.invoked_subcommand != "gui" *)
NeedsConf(sub) == sub # "gui"

(* where click goes once the body of cli has returned *)
EnterSubcommand(sub) == IF sub = "gui" THEN "group" ELSE sub

(* logger.setLevel, ctx.ensure_object, ctx.obj["FORCE"], parsed_conf = None *)
CliEnter ==
    /\ pc = "cli"
    /\ log_level' = verbose
    /\ ctx_force' = <<force>>
    /\ parsed_conf' = None
    /\ pc' = "conf"
    /\ UNCHANGED <<cli_inputs, checked, controller, cardOps, exit_code>>
    /\ UNCHANGED <<inputs, parsed, actions, ctrlCalls, gui, idx, calls, session,
                   sent, error>>

(* the if statement around check_conf_path *)
CliConf ==
    /\ pc = "conf"
    /\ IF NeedsConf(invoked_subcommand)
       THEN LET r == check_conf_path(conf, conf_file)
            IN  /\ checked' = Append(checked, conf)
                /\ IF r.raised = "none"
                   THEN /\ parsed_conf' = r.value
                        /\ pc' = "controller"
                        /\ UNCHANGED error
                   ELSE /\ pc' = "raised"
                        /\ error' = r.raised
                        /\ UNCHANGED parsed_conf
       ELSE /\ pc' = "controller"
            /\ UNCHANGED <<checked, parsed_conf, error>>
    /\ UNCHANGED <<cli_inputs, log_level, ctx_force, controller, cardOps, exit_code>>
    /\ UNCHANGED <<inputs, parsed, actions, ctrlCalls, gui, idx, calls, session, sent>>

(* ctx.obj["CONTROLLER"] = Controller(parsed_conf), the constructor returns *)
CliController ==
    /\ pc = "controller"
    /\ controller' = <<parsed_conf>>
    /\ pc' = EnterSubcommand(invoked_subcommand)
    /\ UNCHANGED <<cli_inputs, log_level, ctx_force, parsed_conf, checked, cardOps,
                   exit_code>>
    /\ UNCHANGED <<inputs, parsed, actions, ctrlCalls, gui, idx, calls, session,
                   sent, error>>

(* Controller(parsed_conf) raises: nothing is stored in ctx.obj *)
CliControllerRaises ==
    /\ pc = "controller"
    /\ pc' = "raised"
    /\ error' = "Exception"
    /\ UNCHANGED <<cli_inputs, cli_state>>
    /\ UNCHANGED <<inputs, parsed, actions, ctrlCalls, gui, idx, calls, session, sent>>

(* ------------------------------------------------------------------ card *)
(* any([prepare, insert, remove, restore]) *)
AnyFlag(flags) == \E f \in Range(CardFlags) : f \in Range(flags)

(* mutant: the steps run in the order the flags were typed *)
CardSteps_AsTyped(flags) == flags

(* the if statements of card whose flag is set, in the order of the source *)
CardSteps(flags) == SelectSeq(CardFlags, LAMBDA f : f \in Range(flags))

(* the position after the k-th selected step *)
StepAt(steps, k) == IF k <= Len(steps) THEN steps[k] ELSE "dump"

StepAfter(steps, cur) ==
    StepAt(steps, (CHOOSE k \in 1..Len(steps) : steps[k] = cur) + 1)

(* the call made at each position *)
OpAt(at) ==
    CASE at = "load" -> "Card.load"
      [] at = "--prepare" -> "__enter__"
      [] at = "--insert" -> "insert"
      [] at = "--remove" -> "remove"
      [] at = "--restore" -> "restore_card_ca"
      [] at = "__exit__" -> "__exit__"
      [] at = "dump" -> "dump_to_json"

CardCallPositions ==
    {"load", "--prepare", "--insert", "--remove", "--restore", "__exit__", "dump"}

(* if not any([...]): logger.error(...); exit(ReturnCode.FAILURE.value) *)
CardCheck ==
    /\ pc = "card"
    /\ IF AnyFlag(card_argv)
       THEN /\ pc' = "load"
            /\ UNCHANGED exit_code
       ELSE /\ pc' = "exited"
            /\ exit_code' = <<FAILURE>>
    /\ UNCHANGED <<cli_inputs, log_level, ctx_force, parsed_conf, checked,
                   controller, cardOps>>
    /\ UNCHANGED <<inputs, parsed, actions, ctrlCalls, gui, idx, calls, session,
                   sent, error>>

(* card = Card.load(card_name=card_name) *)
CardLoad ==
    /\ pc = "load"
    /\ cardOps' = Append(cardOps, OpAt(pc))
    /\ pc' = StepAt(CardSteps(card_argv), 1)
    /\ UNCHANGED <<cli_inputs, log_level, ctx_force, parsed_conf, checked,
                   controller, exit_code>>
    /\ UNCHANGED <<inputs, parsed, actions, ctrlCalls, gui, idx, calls, session,
                   sent, error>>

(* if prepare: card.__enter__() *)
CardPrepare ==
    /\ pc = "--prepare"
    /\ cardOps' = Append(cardOps, OpAt(pc))
    /\ pc' = StepAfter(CardSteps(card_argv), pc)
    /\ UNCHANGED <<cli_inputs, log_level, ctx_force, parsed_conf, checked,
                   controller, exit_code>>
    /\ UNCHANGED <<inputs, parsed, actions, ctrlCalls, gui, idx, calls, session,
                   sent, error>>

(* if insert: card.insert() *)
CardInsert ==
    /\ pc = "--insert"
    /\ cardOps' = Append(cardOps, OpAt(pc))
    /\ pc' = StepAfter(CardSteps(card_argv), pc)
    /\ UNCHANGED <<cli_inputs, log_level, ctx_force, parsed_conf, checked,
                   controller, exit_code>>
    /\ UNCHANGED <<inputs, parsed, actions, ctrlCalls, gui, idx, calls, session,
                   sent, error>>

(* if remove: card.remove() *)
CardRemove ==
    /\ pc = "--remove"
    /\ cardOps' = Append(cardOps, OpAt(pc))
    /\ pc' = StepAfter(CardSteps(card_argv), pc)
    /\ UNCHANGED <<cli_inputs, log_level, ctx_force, parsed_conf, checked,
                   controller, exit_code>>
    /\ UNCHANGED <<inputs, parsed, actions, ctrlCalls, gui, idx, calls, session,
                   sent, error>>

(* if restore: card.restore_card_ca() ... *)
CardRestore ==
    /\ pc = "--restore"
    /\ cardOps' = Append(cardOps, OpAt(pc))
    /\ pc' = "__exit__"
    /\ UNCHANGED <<cli_inputs, log_level, ctx_force, parsed_conf, checked,
                   controller, exit_code>>
    /\ UNCHANGED <<inputs, parsed, actions, ctrlCalls, gui, idx, calls, session,
                   sent, error>>

(* ... card.__exit__(None, None, None) *)
CardExit ==
    /\ pc = "__exit__"
    /\ cardOps' = Append(cardOps, OpAt(pc))
    /\ pc' = StepAfter(CardSteps(card_argv), "--restore")
    /\ UNCHANGED <<cli_inputs, log_level, ctx_force, parsed_conf, checked,
                   controller, exit_code>>
    /\ UNCHANGED <<inputs, parsed, actions, ctrlCalls, gui, idx, calls, session,
                   sent, error>>

(* dump_to_json(card); exit(ReturnCode.SUCCESS.value) *)
CardDump ==
    /\ pc = "dump"
    /\ cardOps' = Append(cardOps, OpAt("dump"))
    /\ exit_code' = <<SUCCESS>>
    /\ pc' = "exited"
    /\ UNCHANGED <<cli_inputs, log_level, ctx_force, parsed_conf, checked, controller>>
    /\ UNCHANGED <<inputs, parsed, actions, ctrlCalls, gui, idx, calls, session,
                   sent, error>>

(* a call of card raises: nothing of card catches it *)
CardRaises ==
    /\ pc \in CardCallPositions
    /\ cardOps' = Append(cardOps, OpAt(pc))
    /\ pc' = "raised"
    /\ error' = "Exception"
    /\ UNCHANGED <<cli_inputs, log_level, ctx_force, parsed_conf, checked,
                   controller, exit_code>>
    /\ UNCHANGED <<inputs, parsed, actions, ctrlCalls, gui, idx, calls, session, sent>>

(* ----------------------------------------------------------------- runs *)
NextCli ==
    \/ CliEnter
    \/ CliConf
    \/ CliController
    \/ CliControllerRaises
    \/ CardCheck
    \/ CardLoad
    \/ CardPrepare
    \/ CardInsert
    \/ CardRemove
    \/ CardRestore
    \/ CardExit
    \/ CardDump
    \/ CardRaises

(* `scauto [options] SUBCOMMAND ...` when click calls cli: every sub-command, *)
(* every option of cli, and for card every way of typing its flags           *)
InitCli ==
    /\ invoked_subcommand \in Subcommands
    /\ conf \in ConfPaths
    /\ conf_file \in ConfFiles
    /\ force \in BOOLEAN
    /\ verbose \in Levels
    /\ card_argv \in IF invoked_subcommand = "card" THEN FlagOrders ELSE {<<>>}
    /\ log_level = "NOTSET"
    /\ ctx_force = <<>>
    /\ parsed_conf = None
    /\ checked = <<>>
    /\ controller = <<>>
    /\ cardOps = <<>>
    /\ exit_code = <<>>
    /\ pc = "cli"
    /\ argv = <<>>
    /\ install_missing = FALSE
    /\ DefaultOptions
    /\ parsed = 0
    /\ actions = <<>>
    /\ ctrlCalls = <<>>
    /\ gui = NoGui
    /\ idx = 0
    /\ calls = <<>>
    /\ session = "Unopened"
    /\ sent = <<>>
    /\ error = "none"

SpecCli == InitCli /\ [][NextCli]_vars

(* ------------------------------------------------------ claims, cli/card *)
Given(flag) == flag \in Range(card_argv)

IsPrefix(p, q) == Len(p) <= Len(q) /\ \A i \in 1..Len(p) : p[i] = q[i]

(* the calls the claim expects of a card run that is not cut short: they   *)
(* depend on which flags are given, never on where they were typed          *)
ExpectedCardOps ==
    <<"Card.load">>
    \o (IF Given("--prepare") THEN <<"__enter__">> ELSE <<>>)
    \o (IF Given("--insert") THEN <<"insert">> ELSE <<>>)
    \o (IF Given("--remove") THEN <<"remove">> ELSE <<>>)
    \o (IF Given("--restore") THEN <<"restore_card_ca", "__exit__">> ELSE <<>>)
    \o <<"dump_to_json">>

(* C21: the card command makes its calls in the fixed order load, prepare   *)
(* (enter), insert, remove, restore (restore CA, then exit), dump to JSON,  *)
(* each step only if its flag is given and wherever the flag was typed; it  *)
(* exits with SUCCESS only after all of them, the dump last, were made, and *)
(* it does so whenever none of them raised; with none of the four flags it exits with FAILURE and the card is never  *)
(* loaded, no card operation is made and nothing is dumped.                 *)
C21_CardFixedOrder ==
    /\ card_argv = <<>> =>
          /\ cardOps = <<>>
          /\ exit_code \in {<<>>, <<FAILURE>>}
          /\ pc = "exited" => exit_code = <<FAILURE>>
    /\ card_argv # <<>> =>
          /\ IsPrefix(cardOps, ExpectedCardOps)
          /\ exit_code \in {<<>>, <<SUCCESS>>}
          /\ exit_code = <<SUCCESS>> => cardOps = ExpectedCardOps
          /\ (cardOps = ExpectedCardOps /\ pc # "raised") => exit_code = <<SUCCESS>>
          /\ pc = "exited" => exit_code = <<SUCCESS>>
    /\ SUCCESS # FAILURE

C21_Witness ==
    /\ card_argv = <<"--restore", "--insert", "--prepare">>
    /\ pc = "exited"
    /\ exit_code = <<SUCCESS>>
    /\ cardOps = <<"Card.load", "__enter__", "insert", "restore_card_ca",
                   "__exit__", "dump_to_json">>

(* the other case of C21: card with no flag has exited with FAILURE *)
C21_NoFlagReached ==
    /\ invoked_subcommand = "card"
    /\ card_argv = <<>>
    /\ pc = "exited"
    /\ exit_code = <<FAILURE>>

(* C22: cli checks the configuration path for every sub-command but gui:    *)
(* for gui no path is ever checked and the Controller is constructed with   *)
(* None; for any other sub-command the path is checked before the           *)
(* Controller is constructed, and when the file is missing the run ends     *)
(* with SCAutolibException and no Controller is ever constructed.           *)
C22_ConfCheckedExceptGui ==
    /\ invoked_subcommand = "gui" =>
          /\ checked = <<>>
          /\ parsed_conf = None
          /\ controller \in {<<>>, <<None>>}
          /\ error # "SCAutolibException"
          /\ pc \in {"group", "parse", "invoke", "callback"} => controller = <<None>>
    /\ invoked_subcommand # "gui" =>
          /\ pc \notin {"cli", "conf"} => checked = <<conf>>
          /\ controller # <<>> =>
                /\ conf_file = "readable"
                /\ controller = <<Resolve(conf)>>
          /\ conf_file = "missing" =>
                /\ controller = <<>>
                /\ pc \notin {"cli", "conf"} =>
                      pc = "raised" /\ error = "SCAutolibException"

C22_Witness ==
    /\ invoked_subcommand = "card"
    /\ conf_file = "missing"
    /\ checked = <<conf>>
    /\ pc = "raised"
    /\ error = "SCAutolibException"
    /\ controller = <<>>

(* the other case of C22: gui has its Controller, constructed with None,    *)
(* though no file is at the path                                            *)
C22_GuiReached ==
    /\ invoked_subcommand = "gui"
    /\ conf_file = "missing"
    /\ pc = "group"
    /\ controller = <<None>>
    /\ checked = <<>>

====
